---- MODULE Spec2Model ----
(***************************************************************************)
(* FlagdWebProvider (libs/providers/flagd-web/src/lib/flagd-web-provider.ts)*)
(* as a state machine: the event stream with its retry chain, the readiness *)
(* gate, the request hash, the node-cache store with TTL and the size       *)
(* listener, and the four resolve*Evaluation operations, each split at its  *)
(* one suspension point (the remote call).                                  *)
(***************************************************************************)
EXTENDS Integers, Sequences, FiniteSets, TLC

VARIABLES
  cacheActive,      \* this.cacheActive (config.cache)
  cacheTTL,         \* config.cacheTTL, the store's stdTTL
  cacheMaxBytes,    \* config.cacheMaxBytes
  maxRetries,       \* config.maxRetries
  providerReady,    \* this.providerReady
  readySeen,        \* a provider_ready message has been handled
  connectionError,  \* this.connectionError
  stream,           \* "open" | "delay" | "closed": the current eventStream call
  attempt,          \* the argument i of the current initStream invocation
  opened,           \* number of eventStream calls made so far
  cache,            \* the store's data: key -> [v |-> entry, t |-> deadline]
  now,              \* the clock read by the store
  callers,          \* the calls the host makes in this run: (kind, flagKey, ctx)
  inflight,         \* pending remote resolve calls: request -> how many
  resolved,         \* key -> result of the latest successful remote resolution
                    \* since the last configuration_change message
  last              \* what the last step did and returned

vars == <<cacheActive, cacheTTL, cacheMaxBytes, maxRetries, providerReady,
          readySeen, connectionError, stream, attempt, opened, cache, now, callers,
          inflight, resolved, last>>

config == <<cacheActive, cacheTTL, cacheMaxBytes, maxRetries, callers>>
conn   == <<providerReady, readySeen, connectionError, stream, attempt, opened>>

----------------------------------------------------------------------------
(* Bounds of the model *)

MaxRetriesBound == 2     \* maxRetries ranges over 0..MaxRetriesBound
MaxInFlight == 2         \* remote calls pending at once
MaxTime == 2             \* clock ticks in one run
MaxOpened == 4           \* eventStream calls in one run

----------------------------------------------------------------------------
(* Constants of the program *)

EVENT_CONFIGURATION_CHANGE == "configuration_change"
EVENT_PROVIDER_READY == "provider_ready"
ERROR_CONNECTION_ERROR == "CONNECTION_ERROR"
ERROR_DISABLED == "DISABLED"
PROVIDER_NOT_READY == "PROVIDER_NOT_READY"
ReasonERROR == "ERROR"

Kinds == {"boolean", "string", "number", "object"}

FlagKeys == {"a", "b", "a--b"}

\* An evaluation context: its key/value pairs in insertion order.
CtxEmpty == <<>>
CtxX == << <<"x", "1">> >>
\* the same two pairs, inserted in either order
CtxXY == << <<"x", "1">>, <<"y", "2">> >>
CtxYX == << <<"y", "2">>, <<"x", "1">> >>
Contexts == {CtxEmpty, CtxX, CtxXY, CtxYX}

Req(kind, flagKey, ctx) == [kind |-> kind, flagKey |-> flagKey, ctx |-> ctx]

\* The calls a host makes in one run: two contexts of one flag and another
\* flag; flag keys that hold the separator; several kinds on one flag.
CallerSets ==
  { { Req("boolean", "a", CtxEmpty), Req("boolean", "a", CtxX),
      Req("boolean", "b", CtxEmpty) },
    { Req("boolean", "a", CtxEmpty), Req("string", "a--b", CtxEmpty),
      Req("string", "a--b", CtxX) },
    { Req("object", "a", CtxEmpty), Req("number", "a", CtxEmpty),
      Req("string", "b", CtxX) } }

TimedCallers ==
  { Req("boolean", "a", CtxEmpty), Req("object", "a--b", CtxX) }

\* one flag, called with the same pairs in both insertion orders
OrderCallers ==
  { Req("boolean", "b", CtxXY), Req("boolean", "b", CtxYX) }

KindsCallers ==
  { Req("object", "a", CtxEmpty), Req("number", "a", CtxEmpty),
    Req("string", "b", CtxX), Req("boolean", "b", CtxX) }

\* The caller's default value, one per kind.
DefaultValue(kind) ==
  CASE kind = "boolean" -> [type |-> "boolean", v |-> "false"]
    [] kind = "string"  -> [type |-> "string",  v |-> "fallback"]
    [] kind = "number"  -> [type |-> "number",  v |-> "0"]
    [] kind = "object"  -> [type |-> "object",  v |-> "{}"]

Undefined == [undefined |-> TRUE]

----------------------------------------------------------------------------
(* The request hash *)

RECURSIVE JoinPairs(_)
JoinPairs(ctx) ==
  IF ctx = <<>> THEN ""
  ELSE "\"" \o ctx[1][1] \o "\":" \o ctx[1][2]
       \o (IF Len(ctx) > 1 THEN "," ELSE "") \o JoinPairs(Tail(ctx))

\* JSON.stringify(Struct.fromJsonString(JSON.stringify(transformedContext)))
JSONstringify(ctx) == "{" \o JoinPairs(ctx) \o "}"

\* Md5.hashStr on the strings the bounded contexts serialize to.
Md5hashStr(s) ==
  CASE s = "{}"                  -> "99914b932bd37a50b983c5e7c90ae93b"
    [] s = "{\"x\":1}"           -> "ac3ef48caa08fa3ed5e025da69edc645"
    [] s = "{\"x\":1,\"y\":2}"   -> "bffc6d75bad8781eab9aaad022985e6b"
    [] s = "{\"y\":2,\"x\":1}"   -> "d6c88e79a0c1ec537bbf9d99110a118e"

reqHash(flagKey, ctx) == flagKey \o "--" \o Md5hashStr(JSONstringify(ctx))

\* keys[i].split("--")[0]
SplitPrefix(key) ==
  LET hits == {j \in 1..(Len(key) - 1) : SubSeq(key, j, j + 1) = "--"}
  IN IF hits = {} THEN key
     ELSE LET first == CHOOSE j \in hits : \A h \in hits : j <= h
          IN SubSeq(key, 1, first - 1)

----------------------------------------------------------------------------
(* The store (node-cache, constructed with stdTTL: cacheTTL) *)

EmptyCache == [k \in {} |-> Undefined]

Expired(e, t) == e.t # 0 /\ e.t < t

CacheDel(c, key) == [k \in DOMAIN c \ {key} |-> c[k]]

\* the store's expiry check on access: an expired entry is deleted
CacheCheck(c, key, t) ==
  IF key \in DOMAIN c /\ Expired(c[key], t) THEN CacheDel(c, key) ELSE c

CacheGet(c, key, t) ==
  IF key \in DOMAIN c /\ ~Expired(c[key], t) THEN c[key].v ELSE Undefined

CacheKeys(c) == DOMAIN c

RECURSIVE SumLen(_)
SumLen(ks) ==
  IF ks = {} THEN 0
  ELSE LET k == CHOOSE x \in ks : TRUE IN Len(k) + SumLen(ks \ {k})

\* getStats(): ksize is the sum of the key lengths, vsize counts 80 per
\* own property of each stored object
Ksize(c) == SumLen(DOMAIN c)
Vsize(c) ==
  LET RECURSIVE Sum(_)
      Sum(ks) == IF ks = {} THEN 0
                 ELSE LET k == CHOOSE x \in ks : TRUE
                      IN 80 * Cardinality(DOMAIN c[k].v) + Sum(ks \ {k})
  IN Sum(DOMAIN c)

FlushAll == EmptyCache

\* a listener that logs and leaves the cache as it is
SetListenerKeepsAll(c) == c

\* a listener that evicts one entry instead of flushing
SetListenerEvictsOne(c) ==
  IF cacheMaxBytes # 0 /\ Ksize(c) + Vsize(c) > cacheMaxBytes
  THEN CacheDel(c, CHOOSE k \in DOMAIN c : TRUE) ELSE c

\* the "set" listener the constructor adds when cacheMaxBytes != 0
SetListener(c) ==
  IF cacheMaxBytes # 0 /\ Ksize(c) + Vsize(c) > cacheMaxBytes
  THEN FlushAll ELSE c

CacheStore(c, key, val, t) ==
  [k \in DOMAIN c \cup {key} |->
     IF k = key
     THEN [v |-> val, t |-> IF cacheTTL = 0 THEN 0 ELSE t + cacheTTL]
     ELSE c[k]]

\* this.cache.set(reqHash, resDetails): store, then emit "set"
CacheSet(c, key, val, t) == SetListener(CacheStore(c, key, val, t))

----------------------------------------------------------------------------
(* The remote service (external collaborator): what it may answer *)

Val(type, v) == [type |-> type, v |-> v]

\* successful responses of resolveBoolean / resolveString / resolveFloat /
\* resolveObject; a resolveObject response may carry no value
Responses(kind) ==
  CASE kind = "boolean" ->
         { [value |-> Val("boolean", "true"),  reason |-> "STATIC", variant |-> "on"],
           [value |-> Val("boolean", "false"), reason |-> "STATIC", variant |-> "off"] }
    [] kind = "string" ->
         { [value |-> Val("string", "red"), reason |-> "STATIC", variant |-> "v1"] }
    [] kind = "number" ->
         { [value |-> Val("number", "1"), reason |-> "STATIC", variant |-> "v1"] }
    [] kind = "object" ->
         { [value |-> Val("object", "{\"k\":1}"), reason |-> "STATIC", variant |-> "v1"],
           [reason |-> "DEFAULT", variant |-> "none"] }

\* (err as Partial<ConnectError>).code
ErrCodes == {"NotFound", "InvalidArgument", "Unavailable", "DataLoss", "Unknown"}

ErrorResponse(code) ==
  CASE code = "NotFound"        -> "FLAG_NOT_FOUND"
    [] code = "InvalidArgument" -> "TYPE_MISMATCH"
    [] code = "Unavailable"     -> ERROR_DISABLED
    [] code = "DataLoss"        -> "PARSE_ERROR"
    [] OTHER                    -> "GENERAL"

\* messages the event stream may deliver
Messages ==
  { [type |-> EVENT_PROVIDER_READY], [type |-> "keep_alive"],
    [type |-> EVENT_CONFIGURATION_CHANGE],
    [type |-> EVENT_CONFIGURATION_CHANGE,
     data |-> [type |-> "write", source |-> "file"]] }
  \cup { [type |-> EVENT_CONFIGURATION_CHANGE,
          data |-> [type |-> "write", source |-> "file", flagKey |-> k]] :
         k \in FlagKeys }

----------------------------------------------------------------------------
(* Configuration (configuration.ts) *)

DEFAULT_CONFIG ==
  [host |-> "localhost", port |-> 8013, tls |-> FALSE, cache |-> FALSE,
   cacheTTL |-> 0, cacheMaxBytes |-> 0, maxRetries |-> 5]

\* { ...DEFAULT_CONFIG, ...options }
getConfig(options) ==
  [f \in DOMAIN DEFAULT_CONFIG \cup DOMAIN options |->
     IF f \in DOMAIN options THEN options[f] ELSE DEFAULT_CONFIG[f]]

NoOptions == [f \in {} |-> Undefined]
Opt(f, v) == [x \in {f} |-> v]

\* process.env of the host: nothing set, or FLAGD_WEB_* variables set
Environments ==
  { NoOptions,
    [FLAGD_WEB_HOST |-> "flagd.example", FLAGD_WEB_PORT |-> "8014",
     FLAGD_WEB_TLS |-> "true", FLAGD_WEB_MAX_RETRIES |-> "1",
     FLAGD_WEB_CACHE |-> "true", FLAGD_WEB_CACHE_TTL |-> "1",
     FLAGD_WEB_CACHE_MAX_BYTES |-> "300"] }

----------------------------------------------------------------------------
(* Construction *)

\* <<cacheTTL, cacheMaxBytes, callers>>: no limit or a size limit with
\* every caller set, a time limit with the two-call set
CacheLimits ==
  { <<0, m, c>> : m \in {0, 300}, c \in CallerSets }
  \cup { <<1, m, TimedCallers>> : m \in {0, 300} }
  \cup { <<0, 0, OrderCallers>> }

\* <<options, callers>>: the options a host passes to the constructor and
\* the calls it makes. Caching left off with every retry budget (one of them
\* negative), with or without connection options; or caching on with every
\* TTL and size limit.
Hosts ==
  { << Opt("maxRetries", n), KindsCallers >> : n \in (-1)..MaxRetriesBound }
  \cup { << [host |-> "flagd.example", port |-> 443, tls |-> TRUE,
             cache |-> FALSE, maxRetries |-> 0], KindsCallers >> }
  \cup { << [cache |-> TRUE, maxRetries |-> 1]
             @@ (IF lim[1] # 0 THEN Opt("cacheTTL", lim[1]) ELSE NoOptions)
             @@ (IF lim[2] # 0 THEN Opt("cacheMaxBytes", lim[2]) ELSE NoOptions),
           lim[3] >> : lim \in CacheLimits }

\* constructor(options?: Partial<Config>): const config = getConfig(options)
InitConfig ==
  \E h \in Hosts, env \in Environments :
    LET cfg == getConfig(h[1]) IN
    /\ cacheActive = cfg.cache
    /\ cacheTTL = cfg.cacheTTL
    /\ cacheMaxBytes = cfg.cacheMaxBytes
    /\ maxRetries = cfg.maxRetries
    /\ callers = h[2]
    /\ last = [op |-> "constructor", options |-> h[1], env |-> env,
               config |-> cfg]

Init ==
  /\ InitConfig
  /\ providerReady = FALSE
  /\ readySeen = FALSE
  /\ connectionError = FALSE
  /\ stream = "open"          \* this.initStream(0, maxRetries)
  /\ attempt = 0
  /\ opened = 1
  /\ cache = EmptyCache
  /\ now = 0
  /\ inflight = [r \in callers |-> 0]
  /\ resolved = EmptyCache

----------------------------------------------------------------------------
(* The event stream: message callback *)

OnProviderReady(m) ==
  /\ m.type = EVENT_PROVIDER_READY
  /\ providerReady' = TRUE
  /\ readySeen' = TRUE
  /\ UNCHANGED <<cache, resolved>>

\* configuration_change: message.data?.toJsonString() is undefined
OnConfigurationChangeNoData(m) ==
  /\ m.type = EVENT_CONFIGURATION_CHANGE
  /\ "data" \notin DOMAIN m
  /\ cache' = FlushAll
  /\ resolved' = EmptyCache
  /\ UNCHANGED <<providerReady, readySeen>>

\* body.flagKey === prefix, for a body that may carry no flagKey
MatchesFlag(body, key) ==
  "flagKey" \in DOMAIN body /\ body.flagKey = SplitPrefix(key)

OnConfigurationChangeBody(m) ==
  /\ m.type = EVENT_CONFIGURATION_CHANGE
  /\ "data" \in DOMAIN m
  /\ LET body == m.data
         keys == CacheKeys(cache)
         gone == {k \in keys : MatchesFlag(body, k)}
     IN cache' = [k \in DOMAIN cache \ gone |-> cache[k]]
  /\ resolved' = EmptyCache
  /\ UNCHANGED <<providerReady, readySeen>>

\* a callback that empties the cache on any unrecognized message
OnOtherMessageFlushes(m) ==
  /\ m.type \notin {EVENT_PROVIDER_READY, EVENT_CONFIGURATION_CHANGE}
  /\ cache' = FlushAll
  /\ UNCHANGED <<providerReady, readySeen, resolved>>

\* a callback that takes any unrecognized message as a sign of life
OnOtherMessageSetsReady(m) ==
  /\ m.type \notin {EVENT_PROVIDER_READY, EVENT_CONFIGURATION_CHANGE}
  /\ providerReady' = TRUE
  /\ UNCHANGED <<readySeen, cache, resolved>>

OnOtherMessage(m) ==
  /\ m.type \notin {EVENT_PROVIDER_READY, EVENT_CONFIGURATION_CHANGE}
  /\ UNCHANGED <<providerReady, readySeen, cache, resolved>>

\* a message callback that starts the retry budget afresh on provider_ready
OnMessageResetsAttempt(m) ==
  /\ stream = "open"
  /\ \/ OnProviderReady(m)
     \/ OnConfigurationChangeNoData(m)
     \/ OnConfigurationChangeBody(m)
     \/ OnOtherMessage(m)
  /\ attempt' = IF m.type = EVENT_PROVIDER_READY THEN 0 ELSE attempt
  /\ last' = [op |-> "message", msg |-> m]
  /\ UNCHANGED <<config, connectionError, stream, opened, now, inflight>>

OnMessage(m) ==
  /\ stream = "open"
  /\ \/ OnProviderReady(m)
     \/ OnConfigurationChangeNoData(m)
     \/ OnConfigurationChangeBody(m)
     \/ OnOtherMessage(m)
  /\ last' = [op |-> "message", msg |-> m]
  /\ UNCHANGED <<config, connectionError, stream, attempt, opened, now,
                 inflight>>

(* The event stream: close callback *)

\* i != maxRetries: wait out the delay, then initStream(i+1, maxRetries)
OnCloseRetry ==
  /\ attempt # maxRetries
  /\ stream' = "delay"
  /\ UNCHANGED connectionError

OnCloseGiveUp ==
  /\ attempt = maxRetries
  /\ stream' = "closed"
  /\ connectionError' = TRUE

\* a close callback that re-opens the stream itself, without the delay
OnCloseReopensAtOnce ==
  /\ stream = "open"
  /\ IF attempt # maxRetries
     THEN /\ stream' = "open"
          /\ attempt' = attempt + 1
          /\ opened' = opened + 1
          /\ UNCHANGED connectionError
     ELSE /\ stream' = "closed"
          /\ connectionError' = TRUE
          /\ UNCHANGED <<attempt, opened>>
  /\ last' = [op |-> "close"]
  /\ UNCHANGED <<config, providerReady, readySeen, cache, now, inflight,
                 resolved>>

\* a close callback that counts attempts instead of retries
OnCloseCountsAttempts ==
  /\ stream = "open"
  /\ IF attempt + 1 < maxRetries
     THEN stream' = "delay" /\ UNCHANGED connectionError
     ELSE stream' = "closed" /\ connectionError' = TRUE
  /\ last' = [op |-> "close"]
  /\ UNCHANGED <<config, providerReady, readySeen, attempt, opened, cache,
                 now, inflight, resolved>>

\* a close callback that records the failure and retries all the same
OnCloseRetriesAfterGiveUp ==
  /\ stream = "open"
  /\ stream' = "delay"
  /\ connectionError' = (connectionError \/ attempt = maxRetries)
  /\ last' = [op |-> "close"]
  /\ UNCHANGED <<config, providerReady, readySeen, attempt, opened, cache,
                 now, inflight, resolved>>

OnClose ==
  /\ stream = "open"
  /\ (OnCloseRetry \/ OnCloseGiveUp)
  /\ last' = [op |-> "close"]
  /\ UNCHANGED <<config, providerReady, readySeen, attempt, opened, cache,
                 now, inflight, resolved>>

\* the delay elapsed: this.initStream(i+1, maxRetries)
InitStream ==
  /\ stream = "delay"
  /\ opened < MaxOpened
  /\ stream' = "open"
  /\ attempt' = attempt + 1
  /\ opened' = opened + 1
  /\ last' = [op |-> "open"]
  /\ UNCHANGED <<config, providerReady, readySeen, connectionError, cache,
                 now, inflight, resolved>>

----------------------------------------------------------------------------
(* resolveBooleanEvaluation / resolveStringEvaluation /                     *)
(* resolveNumberEvaluation / resolveObjectEvaluation: the synchronous part  *)

Call(req, path, result, reads) ==
  [op |-> "resolve", req |-> req, path |-> path, result |-> result,
   reads |-> reads]

\* a gate that forgets connectionError
GateResultNotReadyOnly(kind) ==
  [value |-> DefaultValue(kind), reason |-> ReasonERROR,
   errorCode |-> PROVIDER_NOT_READY]

\* the result returned while !this.providerReady
GateResult(kind) ==
  [value |-> DefaultValue(kind), reason |-> ReasonERROR,
   errorCode |-> IF connectionError THEN ERROR_CONNECTION_ERROR
                 ELSE PROVIDER_NOT_READY]

Gate == ~providerReady

ResolveGated(req) ==
  /\ Gate
  /\ last' = Call(req, "gated", GateResult(req.kind), 0)
  /\ UNCHANGED <<config, conn, cache, now, inflight, resolved>>

KeyOf(req) == reqHash(req.flagKey, req.ctx)

\* this.cacheActive && this.cache.get(reqHash) != undefined
CacheHit(key) == cacheActive /\ CacheGet(cache, key, now) # Undefined

\* the clock may advance between the two cache.get calls of the hit branch
LaterReads == IF cacheTTL # 0 /\ now < MaxTime THEN {now, now + 1} ELSE {now}

ResolveHit(req) ==
  /\ ~Gate
  /\ CacheHit(KeyOf(req))
  /\ \E t2 \in LaterReads :
       /\ now' = t2
       /\ cache' = CacheCheck(cache, KeyOf(req), t2)
       /\ last' = Call(req, "hit", CacheGet(cache, KeyOf(req), t2), 2)
  /\ UNCHANGED <<config, conn, inflight, resolved>>

InFlightCount ==
  LET RECURSIVE Sum(_)
      Sum(rs) == IF rs = {} THEN 0
                 ELSE LET r == CHOOSE x \in rs : TRUE
                      IN inflight[r] + Sum(rs \ {r})
  IN Sum(DOMAIN inflight)

\* this.promiseClient.resolveX(req) is called; its promise is pending
ResolveRemote(req) ==
  /\ ~Gate
  /\ ~CacheHit(KeyOf(req))
  /\ InFlightCount < MaxInFlight
  /\ inflight' = [inflight EXCEPT ![req] = @ + 1]
  /\ cache' = IF cacheActive THEN CacheCheck(cache, KeyOf(req), now) ELSE cache
  /\ last' = Call(req, "remote", [pending |-> TRUE],
                  IF cacheActive THEN 1 ELSE 0)
  /\ UNCHANGED <<config, conn, now, resolved>>

Resolve(req) ==
  \/ ResolveGated(req)
  \/ ResolveHit(req)
  \/ ResolveRemote(req)

(* the continuation of the remote call *)

\* response: what the remote call gave; result: what the caller gets;
\* wrote: cache.set was called
Done(req, path, response, result, wrote) ==
  [op |-> "complete", req |-> req, path |-> path, response |-> response,
   result |-> result, wrote |-> wrote]

\* the history of successful resolutions, kept while caching is on
Remember(r, key, result, hadValue) ==
  IF cacheActive
  THEN [k \in DOMAIN r \cup {key} |->
          IF k = key THEN [result |-> result, hadValue |-> hadValue]
          ELSE r[k]]
  ELSE r

\* a continuation that stores the entry under the flag key alone
ThenValueKeyedByFlag(req, res) ==
  /\ "value" \in DOMAIN res
  /\ cache' = IF cacheActive THEN CacheSet(cache, req.flagKey, res, now)
              ELSE cache
  /\ resolved' = Remember(resolved, KeyOf(req), res, TRUE)
  /\ last' = Done(req, "then", res, res, cacheActive)

\* a continuation that stores the entry whether or not caching is on
ThenValueAlwaysCaches(req, res) ==
  /\ "value" \in DOMAIN res
  /\ cache' = CacheSet(cache, KeyOf(req), res, now)
  /\ resolved' = Remember(resolved, KeyOf(req), res, TRUE)
  /\ last' = Done(req, "then", res, res, TRUE)

\* .then((res) => ...) with a value: build resDetails, cache it, return it
ThenValue(req, res) ==
  /\ "value" \in DOMAIN res
  /\ cache' = IF cacheActive THEN CacheSet(cache, KeyOf(req), res, now)
              ELSE cache
  /\ resolved' = Remember(resolved, KeyOf(req), res, TRUE)
  /\ last' = Done(req, "then", res, res, cacheActive)

\* a continuation that caches the default it returns
ThenNoValueCaches(req, res) ==
  LET result == [value |-> DefaultValue(req.kind), reason |-> res.reason,
                 variant |-> res.variant]
  IN
  /\ "value" \notin DOMAIN res
  /\ cache' = IF cacheActive THEN CacheSet(cache, KeyOf(req), result, now)
              ELSE cache
  /\ resolved' = Remember(resolved, KeyOf(req), result, FALSE)
  /\ last' = Done(req, "then", res, result, cacheActive)

\* resolveObjectEvaluation, res.value absent: the default, nothing cached
ThenNoValue(req, res) ==
  LET result == [value |-> DefaultValue(req.kind), reason |-> res.reason,
                 variant |-> res.variant]
  IN
  /\ "value" \notin DOMAIN res
  /\ cache' = cache
  /\ resolved' = Remember(resolved, KeyOf(req), result, FALSE)
  /\ last' = Done(req, "then", res, result, FALSE)

\* a failure handler that also empties the cache
CatchFlushes(req, code) ==
  /\ cache' = FlushAll
  /\ resolved' = resolved
  /\ last' = Done(req, "catch", [code |-> code],
                  [reason |-> ReasonERROR, errorCode |-> ErrorResponse(code),
                   value |-> DefaultValue(req.kind)], FALSE)

\* .catch((err) => ...)
Catch(req, code) ==
  /\ cache' = cache
  /\ resolved' = resolved
  /\ last' = Done(req, "catch", [code |-> code],
                  [reason |-> ReasonERROR, errorCode |-> ErrorResponse(code),
                   value |-> DefaultValue(req.kind)], FALSE)

Complete(req) ==
  /\ inflight[req] > 0
  /\ \/ \E res \in Responses(req.kind) : ThenValue(req, res)
     \/ \E res \in Responses(req.kind) : ThenNoValue(req, res)
     \/ \E code \in ErrCodes : Catch(req, code)
  /\ inflight' = [inflight EXCEPT ![req] = @ - 1]
  /\ UNCHANGED <<config, conn, now>>

----------------------------------------------------------------------------
(* Time and the store's periodic expiry sweep *)

Tick ==
  /\ cacheTTL # 0
  /\ now < MaxTime
  /\ now' = now + 1
  /\ last' = [op |-> "tick"]
  /\ UNCHANGED <<config, conn, cache, inflight, resolved>>

CheckData ==
  /\ \E k \in DOMAIN cache : Expired(cache[k], now)
  /\ cache' = [k \in {x \in DOMAIN cache : ~Expired(cache[x], now)} |-> cache[k]]
  /\ last' = [op |-> "sweep"]
  /\ UNCHANGED <<config, conn, now, inflight, resolved>>

----------------------------------------------------------------------------

Next ==
  \/ \E m \in Messages : OnMessage(m)
  \/ OnClose
  \/ InitStream
  \/ \E req \in callers : Resolve(req)
  \/ \E req \in callers : Complete(req)
  \/ Tick
  \/ CheckData

Spec == Init /\ [][Next]_vars

----------------------------------------------------------------------------
(* Properties *)

LastKey == KeyOf(last.req)

IsChange(m) == m.type = EVENT_CONFIGURATION_CHANGE
NamesFlag(m) == IsChange(m) /\ "data" \in DOMAIN m /\ "flagKey" \in DOMAIN m.data

\* C1 (readiness gate): a resolve*Evaluation call made while no
\* provider_ready message has been handled returns the caller's default with
\* reason ERROR and error code CONNECTION_ERROR if connectionError is set,
\* PROVIDER_NOT_READY otherwise; it makes no remote call and neither reads
\* nor writes the cache.
C1_ReadinessGate ==
  (last.op = "resolve" /\ ~readySeen) =>
    /\ last.path = "gated"
    /\ last.result =
         [value |-> DefaultValue(last.req.kind), reason |-> "ERROR",
          errorCode |-> IF connectionError THEN "CONNECTION_ERROR"
                        ELSE "PROVIDER_NOT_READY"]
    /\ last.reads = 0
    /\ cache = EmptyCache
    /\ InFlightCount = 0

C1_Witness ==
  /\ last.op = "resolve"
  /\ ~readySeen
  /\ connectionError
  /\ last.result.errorCode = "CONNECTION_ERROR"

\* C2 as stated (cache hit avoids network): with caching on, once a pair has
\* been resolved successfully by the remote service, a later resolution of
\* the same pair with no configuration_change message in between returns the
\* same result and makes no remote call.
C2_Original ==
  (/\ cacheActive
   /\ last.op = "resolve"
   /\ LastKey \in DOMAIN resolved
   /\ resolved[LastKey].hadValue) =>
    /\ last.path = "hit"
    /\ last.result = resolved[LastKey].result

\* C2 as amended: the same, for a store with no time limit and no size limit
\* (cacheTTL = 0 and cacheMaxBytes = 0), the result being that of the most
\* recent successful resolution of the pair that carried a value.
C2_CacheHitNoNetwork ==
  (/\ cacheActive
   /\ cacheTTL = 0
   /\ cacheMaxBytes = 0
   /\ last.op = "resolve"
   /\ LastKey \in DOMAIN resolved
   /\ resolved[LastKey].hadValue) =>
    /\ last.path = "hit"
    /\ last.result = resolved[LastKey].result

C2_Witness ==
  /\ cacheActive
  /\ cacheTTL = 0
  /\ cacheMaxBytes = 0
  /\ last.op = "resolve"
  /\ last.path = "hit"
  /\ LastKey \in DOMAIN resolved
  /\ resolved[LastKey].hadValue
  /\ last.result = resolved[LastKey].result

\* C3 (targeted invalidation): handling a configuration_change message that
\* names flag A removes every entry stored for A, for every context, and
\* leaves every entry stored for any other flag B as it was.
C3_TargetedInvalidation ==
  [][(last'.op = "message" /\ NamesFlag(last'.msg)) =>
       \A k \in FlagKeys, ctx \in Contexts :
         LET key == reqHash(k, ctx) IN
         IF k = last'.msg.data.flagKey
         THEN key \notin DOMAIN cache'
         ELSE key \in DOMAIN cache =>
                (key \in DOMAIN cache' /\ cache'[key] = cache[key])]_vars

\* C4 (re-fetch after invalidation): with caching on, the provider ready and
\* no resolution in flight, the resolution of flag k that follows the handling of a
\* configuration_change message for k calls the remote service again.
C4_RefetchAfterInvalidation ==
  [][(/\ cacheActive
      /\ providerReady
      /\ last.op = "message"
      /\ NamesFlag(last.msg)
      /\ InFlightCount = 0
      /\ last'.op = "resolve"
      /\ last'.req.flagKey = last.msg.data.flagKey) =>
       last'.path = "remote"]_vars

\* C5 (retry termination count): for maxRetries >= 0, at most maxRetries + 1
\* event streams are ever opened, and when connectionError is set exactly maxRetries + 1 have
\* been opened (the initial one and maxRetries retries).
C5_RetryCount ==
  maxRetries >= 0 =>
    /\ opened <= maxRetries + 1
    /\ connectionError => opened = maxRetries + 1

C5_Witness == connectionError /\ maxRetries = 2 /\ opened = 3

\* C6 (terminal failure is permanent): once connectionError is set it stays
\* set, no event stream is opened and no message is handled.
C6_TerminalFailure ==
  [][connectionError =>
       /\ connectionError'
       /\ opened' = opened
       /\ stream' = "closed"
       /\ last'.op \notin {"message", "open"}]_vars

C6_Witness == connectionError /\ last.op = "complete"

\* C7 (gate after retry exhaustion): while connectionError is set, every
\* resolve*Evaluation call returns the caller's default with error code
\* CONNECTION_ERROR and makes no remote call.
C7_GateAfterExhaustion ==
  (connectionError /\ last.op = "resolve") =>
    /\ last.path = "gated"
    /\ last.result.errorCode = "CONNECTION_ERROR"

\* C8 (malformed notification over-invalidates): after a configuration_change
\* message with no payload, or with a payload that carries no flagKey, has
\* been handled, the cache is empty.
C8_MalformedFlushes ==
  (last.op = "message" /\ IsChange(last.msg) /\ ~NamesFlag(last.msg)) =>
    cache = EmptyCache

\* C9 (size-based flush): with cacheMaxBytes > 0, an insertion that takes the
\* estimated size (key sizes plus value sizes) above cacheMaxBytes leaves the
\* cache empty, and the resolution that made it returns the remote result.
C9_SizeFlush ==
  [][(/\ last'.op = "complete"
      /\ last'.wrote
      /\ cacheMaxBytes > 0
      /\ LET c == CacheStore(cache, KeyOf(last'.req), last'.result, now)
         IN Ksize(c) + Vsize(c) > cacheMaxBytes) =>
       /\ cache' = EmptyCache
       /\ last'.path = "then"
       /\ last'.result = last'.response]_vars

C9_Witness ==
  /\ last.op = "complete"
  /\ last.wrote
  /\ cacheMaxBytes > 0
  /\ cache = EmptyCache
  /\ last.result = last.response

\* C10 (bulk eviction on stream disconnection): when the event stream has
\* terminated, the cache is empty.
C10_EvictOnDisconnect == last.op = "close" => cache = EmptyCache

\* the entries a lookup can still return at time t
Live(c, t) == [k \in {x \in DOMAIN c : ~Expired(c[x], t)} |-> c[k]]

\* C11 (failure mapping without side effects): a call of any of the four
\* kinds takes the remote path only when the provider is ready and the lookup
\* misses, and the lookup leaves every entry that can still be returned in
\* place; when the remote call then fails, the call completes with exactly
\* {value: the caller's default, reason: ERROR, errorCode: the mapped code},
\* and the completion neither writes nor changes the cache.
C11_FailureMapping ==
  [][/\ (last'.op = "resolve" /\ last'.path = "remote") =>
          /\ providerReady
          /\ ~CacheHit(KeyOf(last'.req))
          /\ Live(cache', now') = Live(cache, now)
     /\ (last'.op = "complete" /\ last'.path = "catch") =>
          /\ last'.result =
               [value |-> DefaultValue(last'.req.kind), reason |-> "ERROR",
                errorCode |-> ErrorResponse(last'.response.code)]
          /\ last'.response.code \in ErrCodes
          /\ ~last'.wrote
          /\ cache' = cache]_vars

\* a failed remote call of an object resolution completed while the cache
\* held entries
C11_Witness ==
  /\ last.op = "complete"
  /\ last.path = "catch"
  /\ last.req.kind = "object"
  /\ cacheActive
  /\ cache # EmptyCache
\* C12 (readiness precedes non-gated results): providerReady turns true only
\* in a step that handles a provider_ready message on an open stream; a call
\* that invokes the remote or returns from the cache, and a remote call that
\* is pending, exist only after a provider_ready message has been handled.
C12_ReadinessPrecedes ==
  [][/\ (~providerReady /\ providerReady') =>
          /\ stream = "open"
          /\ last'.op = "message"
          /\ last'.msg.type = "provider_ready"
     /\ (last'.op = "resolve" /\ last'.path \in {"hit", "remote"}) =>
          readySeen
     /\ InFlightCount > 0 => readySeen]_vars

\* a call returned a cached entry
C12_Witness ==
  /\ last.op = "resolve"
  /\ last.path = "hit"
  /\ last.result # Undefined
  /\ readySeen
\* two contexts hold the same key/value pairs
SamePairs(c1, c2) ==
  {c1[i] : i \in DOMAIN c1} = {c2[i] : i \in DOMAIN c2}

\* C13 (fingerprint determinism): when the cache holds a result for a flag key
\* and a context, every call with the same flag key and a context holding the
\* same key/value pairs, in whatever order they were inserted, has the same
\* cache key and finds that result.
C13_FingerprintDeterminism ==
  \A r1, r2 \in callers :
    (/\ r1.flagKey = r2.flagKey
     /\ SamePairs(r1.ctx, r2.ctx)
     /\ CacheGet(cache, KeyOf(r1), now) # Undefined) =>
      /\ KeyOf(r1) = KeyOf(r2)
      /\ CacheGet(cache, KeyOf(r2), now) = CacheGet(cache, KeyOf(r1), now)
\* the last step completed a remote call whose response carried no value
NoValueDone ==
  /\ last.op = "complete"
  /\ last.path = "then"
  /\ "value" \notin DOMAIN last.response

StatedErrorCode(code) ==
  CASE code = "NotFound"        -> "FLAG_NOT_FOUND"
    [] code = "InvalidArgument" -> "TYPE_MISMATCH"
    [] code = "Unavailable"     -> "CONNECTION_ERROR"
    [] code = "DataLoss"        -> "PARSE_ERROR"
    [] OTHER                    -> "GENERAL"

\* C15 (error code mapping): the result of a call whose remote call failed
\* carries FLAG_NOT_FOUND for not found, TYPE_MISMATCH for invalid argument,
\* CONNECTION_ERROR for unavailable, PARSE_ERROR for data loss and GENERAL for
\* every other failure.
C15_ErrorCodeMapping ==
  (last.op = "complete" /\ last.path = "catch") =>
    last.result.errorCode = StatedErrorCode(last.response.code)
\* C16 (unrecognized messages are ignored): handling a message whose type is
\* neither provider_ready nor configuration_change leaves providerReady,
\* connectionError, the attempt counter and the cache unchanged.
C16_OtherMessageIgnored ==
  [][(/\ last'.op = "message"
      /\ last'.msg.type \notin {"provider_ready", "configuration_change"}) =>
       /\ providerReady' = providerReady
       /\ connectionError' = connectionError
       /\ attempt' = attempt
       /\ cache' = cache]_vars

\* an unrecognized message was handled on a re-opened stream while the
\* provider was ready and the cache held an entry
C16_Witness ==
  /\ last.op = "message"
  /\ last.msg.type = "keep_alive"
  /\ providerReady
  /\ attempt > 0
  /\ cache # EmptyCache
\* the environment variable documented for an option
EnvVar(f) ==
  CASE f = "host"          -> "FLAGD_WEB_HOST"
    [] f = "port"          -> "FLAGD_WEB_PORT"
    [] f = "tls"           -> "FLAGD_WEB_TLS"
    [] f = "maxRetries"    -> "FLAGD_WEB_MAX_RETRIES"
    [] f = "cache"         -> "FLAGD_WEB_CACHE"
    [] f = "cacheTTL"      -> "FLAGD_WEB_CACHE_TTL"
    [] f = "cacheMaxBytes" -> "FLAGD_WEB_CACHE_MAX_BYTES"

\* the value an environment variable's text stands for, by the option's type
EnvValue(f, text) ==
  CASE f = "host"            -> text
    [] f \in {"tls", "cache"} -> (text = "true")
    [] OTHER                 -> CASE text = "8014" -> 8014
                                  [] text = "300"  -> 300
                                  [] text = "1"    -> 1

StatedDefaults ==
  [host |-> "localhost", port |-> 8013, tls |-> FALSE, maxRetries |-> 5,
   cache |-> FALSE, cacheTTL |-> 0, cacheMaxBytes |-> 0]

\* C17 (configuration precedence): the configuration the constructor works
\* with holds, for each option, the constructor argument if given, otherwise
\* the value of the option's FLAGD_WEB_* environment variable if set,
\* otherwise the default; the provider's fields carry those values.
C17_ConfigPrecedence ==
  last.op = "constructor" =>
    /\ \A f \in DOMAIN StatedDefaults :
         last.config[f] =
           IF f \in DOMAIN last.options THEN last.options[f]
           ELSE IF EnvVar(f) \in DOMAIN last.env
                THEN EnvValue(f, last.env[EnvVar(f)])
                ELSE StatedDefaults[f]
    /\ cacheActive = last.config.cache
    /\ cacheTTL = last.config.cacheTTL
    /\ cacheMaxBytes = last.config.cacheMaxBytes
    /\ maxRetries = last.config.maxRetries
\* C18 (not ready while disconnected): with a retry budget, while the retry
\* delay runs after a stream terminated, and when the stream has just been
\* re-opened, the provider is not ready, and a resolve*Evaluation call made during the delay
\* is gated: the caller's default with an error code, no remote call.
C18_NotReadyWhileDisconnected ==
  maxRetries > 0 =>
    /\ (stream = "delay" \/ last.op = "open") => ~providerReady
    /\ (stream = "delay" /\ last.op = "resolve") =>
         /\ last.path = "gated"
         /\ last.result.value = DefaultValue(last.req.kind)
         /\ "errorCode" \in DOMAIN last.result
\* C19 (no stale entry survives an invalidation): with caching on, when a
\* configuration_change message naming a flag has just been handled, every
\* remote call still pending was issued before it; the completion of such a
\* call for the named flag leaves no entry for its key in the cache. (Flag
\* keys without the separator, for which the handler finds the entries.)
C19_NoStaleRepopulation ==
  [][(/\ cacheActive
      /\ last.op = "message"
      /\ NamesFlag(last.msg)
      /\ SplitPrefix(last.msg.data.flagKey) = last.msg.data.flagKey
      /\ last'.op = "complete"
      /\ last'.req.flagKey = last.msg.data.flagKey) =>
       CacheGet(cache', KeyOf(last'.req), now') = Undefined]_vars
\* the retries a budget allows: none for a budget below one
RetriesAllowed == IF maxRetries > 0 THEN maxRetries ELSE 0

\* C20 (retry loop is capped for every configuration): for every maxRetries,
\* negative ones included, a retry is scheduled only while the attempt counter
\* is still below maxRetries, so that the counter can reach it and the failure
\* be recorded, and no more than the initial stream and the allowed retries
\* are ever opened.
C20_RetryLoopCapped ==
  /\ stream = "delay" => attempt < maxRetries
  /\ opened <= RetriesAllowed + 1

\* C21 (cache-hit branch always yields an entry): with caching on and
\* cacheTTL > 0, a call that takes the cache-hit branch returns a complete
\* {value, reason, variant} entry, never an absent result, also when the
\* entry's deadline passes between the two cache.get calls of the branch.
C21_HitYieldsEntry ==
  (cacheActive /\ cacheTTL > 0 /\ last.op = "resolve" /\ last.path = "hit") =>
    /\ last.result # Undefined
    /\ {"value", "reason", "variant"} \subseteq DOMAIN last.result

\* C22 (caching disabled means no caching): when the provider is constructed
\* with cache = false the cache is empty in every state, and every
\* resolve*Evaluation call made while the provider is ready reads nothing from
\* the cache and invokes the remote resolve operation once, whatever calls
\* were made before.
C22_NoCachingWhenDisabled ==
  [][~cacheActive =>
       /\ cache = EmptyCache
       /\ cache' = EmptyCache
       /\ (providerReady /\ last'.op = "resolve") =>
            /\ last'.path = "remote"
            /\ last'.reads = 0
            /\ inflight' = [inflight EXCEPT ![last'.req] = @ + 1]]_vars

\* with caching off, a call went to the remote while an identical call was
\* already pending
C22_Witness ==
  /\ ~cacheActive
  /\ last.op = "resolve"
  /\ last.path = "remote"
  /\ inflight[last.req] = 2

\* C23 (invalidation is atomic with respect to completions): the handling of
\* a configuration_change message naming a flag is one step in which no
\* pending remote call completes, and in the state it leaves the cache holds
\* no entry of a call for the named flag.
C23_AtomicInvalidation ==
  [][(last'.op = "message" /\ NamesFlag(last'.msg)) =>
       /\ inflight' = inflight
       /\ \A r \in callers :
            r.flagKey = last'.msg.data.flagKey => KeyOf(r) \notin DOMAIN cache']_vars

\* C24 (lifetime retry budget): the attempt counter never decreases and
\* changes only when a stream is re-opened, then by exactly one, as does the
\* number of streams opened; handling provider_ready leaves it as it is; so
\* for maxRetries >= 0 the streams opened over the instance's lifetime number
\* at most maxRetries + 1, however many of them connected.
C24_LifetimeBudget ==
  [][/\ attempt' >= attempt
     /\ (attempt' # attempt \/ last'.op = "open") =>
          /\ last'.op = "open"
          /\ attempt' = attempt + 1
          /\ opened' = opened + 1
     /\ (last'.op = "message" /\ last'.msg.type = "provider_ready") =>
          attempt' = attempt
     /\ opened' = attempt' + 1
     /\ maxRetries >= 0 => opened' <= maxRetries + 1]_vars

\* provider_ready was handled on the last stream the budget allows
C24_Witness ==
  /\ last.op = "message"
  /\ last.msg.type = "provider_ready"
  /\ maxRetries = 2
  /\ attempt = 2
  /\ opened = 3

\* C25 (single live stream): the number of eventStream calls grows only in the
\* step that follows an elapsed retry delay, by one, and that step ends the
\* delay; a delay starts only in the close callback of the open stream, which
\* opens nothing itself; so a stream is opened only when none is open, and a
\* termination is followed by at most one re-open.
C25_SingleLiveStream ==
  [][/\ (opened' # opened \/ last'.op = "open") =>
          /\ last'.op = "open"
          /\ stream = "delay"
          /\ stream' = "open"
          /\ opened' = opened + 1
     /\ (stream' = "delay" /\ stream # "delay") =>
          /\ last'.op = "close"
          /\ stream = "open"
     /\ last'.op = "close" =>
          /\ stream = "open"
          /\ stream' # "open"
          /\ opened' = opened]_vars

\* a stream was re-opened for the second time
C25_Witness ==
  /\ last.op = "open"
  /\ stream = "open"
  /\ opened = 3

\* C26 (size bound): with cacheMaxBytes = N > 0, in every state between
\* operations the store's estimated size, key size plus value size, is at
\* most N.
C26_SizeBound ==
  cacheMaxBytes > 0 => Ksize(cache) + Vsize(cache) <= cacheMaxBytes

\* under a size limit, the cache holds the entry that a completed call just
\* wrote, which takes more than half of the limit
C26_Witness ==
  /\ cacheMaxBytes > 0
  /\ last.op = "complete"
  /\ last.wrote
  /\ Cardinality(DOMAIN cache) = 1
  /\ 2 * (Ksize(cache) + Vsize(cache)) > cacheMaxBytes

\* C27 (kind-safe results): with caching on, a call of one value kind that
\* returns an entry from the cache returns a value of that kind, one that the
\* remote resolve operation of the same kind can have given; it never returns
\* an entry cached by a resolution of another kind.
C27_KindSafeResults ==
  (/\ cacheActive
   /\ last.op = "resolve"
   /\ last.path = "hit"
   /\ last.result # Undefined) =>
    /\ last.result.value.type = last.req.kind
    /\ last.result \in Responses(last.req.kind)
====
